---- MODULE Spec2Model ----
(***************************************************************************)
(* A model of BOPlayground/StanleyStartup/SimpleGPyTorchScript.ipynb: the  *)
(* pool-based Bayesian-optimisation campaign (initial sample, then one     *)
(* scale / fit / predict / score / mask / argmax / append pass per trial), *)
(* the UCB acquisition function and the TorchStandardScaler.               *)
(*                                                                         *)
(* The Gaussian process itself (gpytorch / botorch) is a library: its fit  *)
(* either returns or raises, and its posterior is an arbitrary pair of     *)
(* vectors (mean, stddev >= 0) over the pool.                              *)
(***************************************************************************)
EXTENDS Integers, Sequences, FiniteSets, TLC

VARIABLES
    N,          \* len(df): the size of the candidate pool
    n_initial,  \* how many points to start with
    op_budget,  \* how many optimisation iterations to perform
    idx,        \* the evaluated indices, in selection order (values in 0..N-1)
    trial,      \* the loop variable: iterations completed so far
    pc,         \* the statement the notebook cell is at
    gp,         \* the surrogate of this iteration: "none", "unfit" or "fit"
    pred,       \* the posterior over the whole pool: [mean, stddev]
    acqf_vals,  \* the acquisition scores over the whole pool
    err,        \* the exception that ended the run, "none" while it runs
    gp_id,      \* which GPModel instance gp is bound to (0: none constructed)
    likelihood, \* which GaussianLikelihood instance likelihood is bound to
    fits,       \* per GPModel instance constructed: how often it was fitted
    X_, y_,     \* the pool: one feature column and the responses, N rows each
    ts_mean,    \* TorchStd.mean: the input scaler, fitted on the whole pool
    ts_std,     \* TorchStd.std
    X, y,       \* the training inputs and responses
    \* A call of UCB on its own: the caller's posterior, the epsilon passed
    \* (<< >> when the caller passes none) and the returned scores.
    u_pc, u_pred, u_eps, u_out,
    \* A TorchStandardScaler on its own: the fitting data, the stored mean
    \* and std, the caller's x, and what transform and reverse returned.
    s_pc, s_data, s_mean, s_std, s_x, s_t, s_r

ctrlVars == <<N, n_initial, op_budget, idx, trial, pc, gp, pred, acqf_vals, err>>
dataVars == <<X_, y_, ts_mean, ts_std, X, y>>
gpVars == <<gp_id, likelihood, fits>>
loopVars == <<ctrlVars, dataVars, gpVars>>
ucbVars == <<u_pc, u_pred, u_eps, u_out>>
scalerVars == <<s_pc, s_data, s_mean, s_std, s_x, s_t, s_r>>
vars == <<loopVars, ucbVars, scalerVars>>

----------------------------------------------------------------------------
(* Bounds of the model. *)

MaxN == 3
MaxInitial == 2
MaxBudget == 2

(* Constants of the program. *)

Sentinel == -100
DefaultEpsilon == 2

(* The values a posterior mean and a posterior standard deviation take in  *)
(* the model.  With epsilon = 2 the scores are -102, -100, 0 and 2: below  *)
(* the sentinel, equal to it, and above it.                                *)
MeanVals == {-102, 0}
StddevVals == {0, 1}

----------------------------------------------------------------------------
(* Helpers. *)

Min(a, b) == IF a <= b THEN a ELSE b

Range(s) == {s[k] : k \in DOMAIN s}

Pool(n) == 0 .. (n - 1)

NoVec == <<>>
NoPred == [mean |-> NoVec, stddev |-> NoVec]

(* torch.randperm(n): every ordering of 0..n-1. *)
RandPerm(n) ==
    {p \in [1 .. n -> Pool(n)] : \A a, b \in 1 .. n : a # b => p[a] # p[b]}

(* s[:k], a Python slice: the first k entries, all of s when it is shorter. *)
Take(s, k) == [j \in 1 .. Min(k, Len(s)) |-> s[j]]

(* UCB(pred, epsilon): pred.mean + epsilon*pred.stddev, elementwise, as a  *)
(* new vector.                                                             *)
UCBLower(p, epsilon) ==
    [i \in DOMAIN p.mean |-> p.mean[i] - epsilon * p.stddev[i]]
UCB(p, epsilon) ==
    [i \in DOMAIN p.mean |-> p.mean[i] + epsilon * p.stddev[i]]

(* UCB(pred): the call the loop makes, epsilon left at its default.        *)
UCBDefault(p) == UCB(p, DefaultEpsilon)

(* acqf_vals[idx] = -100: the entries at the positions idx names are       *)
(* overwritten, the others kept.                                           *)
Masked(v, ix) ==
    [i \in DOMAIN v |-> IF i \in Range(ix) THEN Sentinel ELSE v[i]]

(* v.argmax(): the position of the maximum, the first one on a tie.        *)
ArgMax(v) ==
    CHOOSE i \in DOMAIN v :
        /\ \A j \in DOMAIN v : v[j] <= v[i]
        /\ \A j \in DOMAIN v : j < i => v[j] < v[i]

(* torch.cat([idx, i.unsqueeze(0)]): idx with i after its last entry.      *)
CatInPlace(ix, i) == [ix EXCEPT ![Len(ix)] = i]
Cat(ix, i) == Append(ix, i)

(* trange(op_budget): the values 0 .. op_budget-1, so the body runs for    *)
(* trial t exactly when t < op_budget.                                     *)
InRangeInclusive(t, budget) == t <= budget
InRange(t, budget) == t < budget

----------------------------------------------------------------------------
(* Floating point.  The notebook sets torch.float64; the model keeps the   *)
(* same arithmetic (binary, every operation rounded to the nearest         *)
(* representable value, ties to even) with MantBits bits of significand    *)
(* instead of 53 and no bound on the exponent.  A value is [m, e],         *)
(* standing for m * 2^e, with m odd (or m = 0 and e = 0), so that equal    *)
(* values are equal records.                                               *)

MantBits == 4

Abs(a) == IF a < 0 THEN -a ELSE a

RECURSIVE Pow2(_)
Pow2(k) == IF k <= 0 THEN 1 ELSE 2 * Pow2(k - 1)

RECURSIVE BitLen(_)
BitLen(m) == IF m = 0 THEN 0 ELSE 1 + BitLen(m \div 2)

Flt(m, e) == [m |-> m, e |-> e]
Zero == Flt(0, 0)
Neg(a) == Flt(-a.m, a.e)

RECURSIVE Canon(_, _)
Canon(m, e) ==
    IF m = 0 THEN Zero
    ELSE IF m % 2 = 0 THEN Canon(m \div 2, e + 1)
    ELSE Flt(m, e)

(* (n / d) * 2^e, n > 0 and d > 0, rounded to MantBits bits.               *)
RECURSIVE RoundMag(_, _, _)
RoundMag(n, d, e) ==
    IF n < d * Pow2(MantBits - 1) THEN RoundMag(2 * n, d, e - 1)
    ELSE IF n >= d * Pow2(MantBits) THEN RoundMag(n, 2 * d, e + 1)
    ELSE LET q == n \div d
             r == n - q * d
             up == (2 * r > d) \/ (2 * r = d /\ q % 2 = 1)
         IN  Canon(IF up THEN q + 1 ELSE q, e)

Round(n, d, e) ==
    IF n = 0 THEN Zero
    ELSE IF n < 0 THEN Neg(RoundMag(-n, d, e))
    ELSE RoundMag(n, d, e)

FromInt(k) == Round(k, 1, 0)

(* The exponent of the bit above a's leading bit.                          *)
Lead(a) == a.e + BitLen(Abs(a.m))

(* a + b.  An operand below a quarter of the other's last place does not   *)
(* change the rounded sum.                                                 *)
FAdd(a, b) ==
    IF a.m = 0 THEN b
    ELSE IF b.m = 0 THEN a
    ELSE IF Lead(a) - Lead(b) > MantBits + 3 THEN a
    ELSE IF Lead(b) - Lead(a) > MantBits + 3 THEN b
    ELSE LET e == IF a.e <= b.e THEN a.e ELSE b.e
         IN  Round(a.m * Pow2(a.e - e) + b.m * Pow2(b.e - e), 1, e)

FSub(a, b) == FAdd(a, Neg(b))

FMul(a, b) == Round(a.m * b.m, 1, a.e + b.e)

(* a / b, b # 0.                                                           *)
FDiv(a, b) ==
    IF b.m > 0 THEN Round(a.m, b.m, a.e - b.e)
    ELSE Round(-a.m, -b.m, a.e - b.e)

(* The square root of m * 2^e, e even: m is scaled by powers of 4 until    *)
(* its integer root s has two bits more than the significand; a root that  *)
(* is not exact lies strictly between s and s + 1, and rounds as s + 1/2.  *)
RECURSIVE SqrtScaled(_, _)
SqrtScaled(m, e) ==
    IF m < Pow2(2 * MantBits + 2) THEN SqrtScaled(4 * m, e - 2)
    ELSE LET s == CHOOSE r \in Pow2(MantBits + 1) .. Pow2(MantBits + 2) :
                      r * r <= m /\ (r + 1) * (r + 1) > m
         IN  Round(2 * s + (IF s * s = m THEN 0 ELSE 1), 2, e \div 2)

(* sqrt(a), a >= 0.                                                        *)
FSqrt(a) ==
    IF a.m = 0 THEN Zero
    ELSE IF a.e % 2 = 0 THEN SqrtScaled(a.m, a.e)
    ELSE SqrtScaled(2 * a.m, a.e - 1)

(* The sum of a column, entry after entry.                                 *)
RECURSIVE FSum(_)
FSum(x) ==
    IF Len(x) = 0 THEN Zero
    ELSE FAdd(FSum(SubSeq(x, 1, Len(x) - 1)), x[Len(x)])

----------------------------------------------------------------------------
(* TorchStandardScaler, on one column: a column is a sequence of values,   *)
(* one per row; mean and std (keepdim) are one value each.                 *)

(* The literal 1e-10 = 2^-10 / 5^10, as the nearest representable value.   *)
Eps == Round(1, 9765625, -10)

(* x.clone(): a new tensor with the values of x.                           *)
Clone(x) == x

(* x.mean(0, keepdim=True) *)
ColMean(x) == FDiv(FSum(x), FromInt(Len(x)))

(* x.std(0, unbiased=False, keepdim=True): the root of the mean squared    *)
(* deviation from the mean.                                                *)
ColStd(x) ==
    LET mu == ColMean(x)
        sq == [i \in DOMAIN x |-> FMul(FSub(x[i], mu), FSub(x[i], mu))]
    IN  FSqrt(FDiv(FSum(sq), FromInt(Len(x))))

(* x -= self.mean; x /= (self.std + 1e-10) *)
Standardize(mean, std, x) ==
    [i \in DOMAIN x |-> FDiv(FSub(x[i], mean), FAdd(std, Eps))]

(* x *= (self.std + 1e-10); x += self.mean *)
UnstandardizeNoEps(mean, std, x) ==
    [i \in DOMAIN x |-> FAdd(FMul(x[i], std), mean)]
Unstandardize(mean, std, x) ==
    [i \in DOMAIN x |-> FAdd(FMul(x[i], FAdd(std, Eps)), mean)]

(* The methods.  Each gives the scaler's stored mean and std and the       *)
(* caller's tensor as they are after the call, and the returned tensor     *)
(* (NoVec for fit, which returns None).  Every method works on a clone of  *)
(* its argument.                                                           *)
ScalerFit(mean, std, x) ==
    LET c == Clone(x)
    IN  [mean |-> ColMean(c), std |-> ColStd(c), x |-> x, ret |-> NoVec]

ScalerTransformInPlace(mean, std, x) ==
    [mean |-> mean, std |-> std, x |-> Standardize(mean, std, x),
     ret |-> Standardize(mean, std, x)]
ScalerTransform(mean, std, x) ==
    LET c == Clone(x)
    IN  [mean |-> mean, std |-> std, x |-> x, ret |-> Standardize(mean, std, c)]

ScalerFitTransform(mean, std, x) ==
    LET c == Clone(x)
        mu == ColMean(c)
        sd == ColStd(c)
    IN  [mean |-> mu, std |-> sd, x |-> x, ret |-> Standardize(mu, sd, c)]

ScalerReverse(mean, std, x) ==
    LET c == Clone(x)
    IN  [mean |-> mean, std |-> std, x |-> x, ret |-> Unstandardize(mean, std, c)]

----------------------------------------------------------------------------
(* The variables of a part of the notebook that a specification does not  *)
(* run.                                                                    *)
LoopIdle ==
    /\ N = 1 /\ n_initial = 1 /\ op_budget = 0 /\ idx = <<0>> /\ trial = 0
    /\ pc = "idle" /\ gp = "none" /\ pred = NoPred /\ acqf_vals = NoVec
    /\ err = "none"
    /\ gp_id = 0 /\ likelihood = 0 /\ fits = << >>
    /\ X_ = NoVec /\ y_ = NoVec /\ ts_mean = NoVec /\ ts_std = NoVec
    /\ X = NoVec /\ y = NoVec
UCBIdle ==
    u_pc = "idle" /\ u_pred = NoPred /\ u_eps = << >> /\ u_out = NoVec
ScalerIdle ==
    /\ s_pc = "idle" /\ s_data = NoVec /\ s_mean = NoVec /\ s_std = NoVec
    /\ s_x = NoVec /\ s_t = NoVec /\ s_r = NoVec

----------------------------------------------------------------------------
(* The pool.  X_ has four feature columns in the notebook; the model keeps *)
(* one.  A pool of n rows takes the first n entries of the feature column  *)
(* and of the response column; the feature column of a pool of one or two  *)
(* rows holds one value only (std = 0).                                    *)
FeatureColumn == <<2, 2, -3, 5, 0, 1, 3>>
ResponseColumn == <<1, 5, -2, 3, 0, 4, 2>>

FloatColumn(col, n) == [k \in 1 .. n |-> FromInt(col[k])]

(* v[idx]: the rows of v that idx names, in the order of idx.              *)
Gather(v, ix) == [k \in 1 .. Len(ix) |-> v[ix[k] + 1]]

(* The campaign.  Init is the state before the for statement: the pool is  *)
(* loaded, TorchStd is fitted on it, the budgets are set and the initial   *)
(* sample is drawn.                                                        *)

Init ==
    /\ N \in 1 .. MaxN
    /\ X_ = FloatColumn(FeatureColumn, N)
    /\ y_ = FloatColumn(ResponseColumn, N)
    /\ ts_mean = ScalerFit(NoVec, NoVec, X_).mean
    /\ ts_std = ScalerFit(NoVec, NoVec, X_).std
    /\ n_initial \in 1 .. MaxInitial
    /\ op_budget \in 0 .. MaxBudget
    /\ idx \in {Take(p, n_initial) : p \in RandPerm(N)}
    /\ X = Gather(Clone(X_), idx)
    /\ y = Gather(Clone(y_), idx)
    /\ trial = 0
    /\ pc = "for"
    /\ gp = "none"
    /\ gp_id = 0
    /\ likelihood = 0
    /\ fits = << >>
    /\ pred = NoPred
    /\ acqf_vals = NoVec
    /\ err = "none"
    /\ UCBIdle
    /\ ScalerIdle

(* for trial in trange(op_budget) *)
ForHead ==
    /\ pc = "for"
    /\ pc' = IF InRange(trial, op_budget) THEN "scale" ELSE "done"
    /\ UNCHANGED <<N, n_initial, op_budget, idx, trial, gp, pred, acqf_vals, err>>
    /\ UNCHANGED <<dataVars, gpVars, ucbVars, scalerVars>>

(* X = TorchStd.transform(X); y = TorchStandardScaler().fit_transform(y):  *)
(* the inputs go through the pool's scaler, the responses through a new    *)
(* scaler that is fitted on them and dropped.                              *)
Scale ==
    /\ pc = "scale"
    /\ LET tx == ScalerTransform(ts_mean, ts_std, X)
           ty == ScalerFitTransform(NoVec, NoVec, y)
       IN  /\ X' = tx.ret
           /\ ts_mean' = tx.mean
           /\ ts_std' = tx.std
           /\ y' = ty.ret
    /\ pc' = "construct"
    /\ UNCHANGED <<N, n_initial, op_budget, idx, trial, gp, pred, acqf_vals, err>>
    /\ UNCHANGED <<X_, y_, gpVars, ucbVars, scalerVars>>

(* likelihood = GaussianLikelihood(...); gp = GPModel(X, y, likelihood);   *)
(* mll = ExactMarginalLogLikelihood(likelihood, gp)                        *)
(* Each constructor call gives a new instance: the likelihood and the      *)
(* surrogate of this pass are the next ones after all those made so far,   *)
(* and the new surrogate has not been fitted.                              *)
ConstructReused ==
    /\ pc = "construct"
    /\ gp' = IF gp_id = 0 THEN "unfit" ELSE gp
    /\ likelihood' = IF gp_id = 0 THEN 1 ELSE likelihood
    /\ gp_id' = IF gp_id = 0 THEN 1 ELSE gp_id
    /\ fits' = IF gp_id = 0 THEN <<0>> ELSE fits
    /\ pc' = "fit"
    /\ UNCHANGED <<N, n_initial, op_budget, idx, trial, pred, acqf_vals, err>>
    /\ UNCHANGED <<dataVars, ucbVars, scalerVars>>
Construct ==
    /\ pc = "construct"
    /\ gp' = "unfit"
    /\ likelihood' = Len(fits) + 1
    /\ gp_id' = Len(fits) + 1
    /\ fits' = Append(fits, 0)
    /\ pc' = "fit"
    /\ UNCHANGED <<N, n_initial, op_budget, idx, trial, pred, acqf_vals, err>>
    /\ UNCHANGED <<dataVars, ucbVars, scalerVars>>

(* fit_gpytorch_mll(mll) returns.                                          *)
FitOk ==
    /\ gp' = "fit"
    /\ fits' = [fits EXCEPT ![gp_id] = @ + 1]
    /\ pc' = "predict"
    /\ err' = err

(* fit_gpytorch_mll(mll) raises; nothing in the cell catches it, so the    *)
(* cell stops here.                                                        *)
FitRaisesSwallowed ==
    /\ gp' = gp
    /\ fits' = fits
    /\ pc' = "predict"
    /\ err' = "fit"
FitRaises ==
    /\ gp' = gp
    /\ fits' = fits
    /\ pc' = "aborted"
    /\ err' = "fit"

Fit ==
    /\ pc = "fit"
    /\ (FitOk \/ FitRaises)
    /\ UNCHANGED <<N, n_initial, op_budget, idx, trial, pred, acqf_vals>>
    /\ UNCHANGED <<gp_id, likelihood, dataVars, ucbVars, scalerVars>>

(* pred = gp(TorchStd.transform(X_)) under torch.no_grad(): the whole pool *)
(* goes through the pool's scaler, and the surrogate returns a posterior   *)
(* over its N rows.                                                        *)
Predict ==
    /\ pc = "predict"
    /\ LET tx == ScalerTransform(ts_mean, ts_std, X_)
       IN  /\ X_' = tx.x
           /\ ts_mean' = tx.mean
           /\ ts_std' = tx.std
    /\ \E m \in [Pool(N) -> MeanVals], s \in [Pool(N) -> StddevVals] :
           pred' = [mean |-> m, stddev |-> s]
    /\ pc' = "score"
    /\ UNCHANGED <<N, n_initial, op_budget, idx, trial, gp, acqf_vals, err>>
    /\ UNCHANGED <<y_, X, y, gpVars, ucbVars, scalerVars>>

(* acqf_vals = UCB(pred) *)
Score ==
    /\ pc = "score"
    /\ acqf_vals' = UCBDefault(pred)
    /\ pc' = "mask"
    /\ UNCHANGED <<N, n_initial, op_budget, idx, trial, gp, pred, err>>
    /\ UNCHANGED <<dataVars, gpVars, ucbVars, scalerVars>>

(* acqf_vals[idx] = -100 *)
Mask ==
    /\ pc = "mask"
    /\ acqf_vals' = Masked(acqf_vals, idx)
    /\ pc' = "select"
    /\ UNCHANGED <<N, n_initial, op_budget, idx, trial, gp, pred, err>>
    /\ UNCHANGED <<dataVars, gpVars, ucbVars, scalerVars>>

(* idx = torch.cat([idx, acqf_vals.argmax().unsqueeze(0)]) *)
Select ==
    /\ pc = "select"
    /\ idx' = Cat(idx, ArgMax(acqf_vals))
    /\ pc' = "rederive"
    /\ UNCHANGED <<N, n_initial, op_budget, trial, gp, pred, acqf_vals, err>>
    /\ UNCHANGED <<dataVars, gpVars, ucbVars, scalerVars>>

(* X = X_[idx]; y = y_[idx]; the body ends and the loop variable advances. *)
RederiveAppended ==
    /\ pc = "rederive"
    /\ X' = Append(X, X_[idx[Len(idx)] + 1])
    /\ y' = Append(y, y_[idx[Len(idx)] + 1])
    /\ trial' = trial + 1
    /\ pc' = "for"
    /\ UNCHANGED <<N, n_initial, op_budget, idx, gp, pred, acqf_vals, err>>
    /\ UNCHANGED <<X_, y_, ts_mean, ts_std, gpVars, ucbVars, scalerVars>>
Rederive ==
    /\ pc = "rederive"
    /\ X' = Gather(X_, idx)
    /\ y' = Gather(y_, idx)
    /\ trial' = trial + 1
    /\ pc' = "for"
    /\ UNCHANGED <<N, n_initial, op_budget, idx, gp, pred, acqf_vals, err>>
    /\ UNCHANGED <<X_, y_, ts_mean, ts_std, gpVars, ucbVars, scalerVars>>

Next ==
    \/ ForHead
    \/ Scale
    \/ Construct
    \/ Fit
    \/ Predict
    \/ Score
    \/ Mask
    \/ Select
    \/ Rederive

Spec == Init /\ [][Next]_vars

----------------------------------------------------------------------------
(* UCB called on its own: any posterior over 1 .. MaxUCBLen candidates,    *)
(* with an epsilon of the caller's or with none (u_eps = << >>).           *)

MaxUCBLen == 2
UCBMeanVals == {-3, 0, 4}
UCBStddevVals == {0, 1, 5}
UCBEpsilonVals == {-1, 0, 1, 2, 3}

Posteriors(n, means, stddevs) ==
    {[mean |-> m, stddev |-> sd] : m \in [Pool(n) -> means],
                                  sd \in [Pool(n) -> stddevs]}

InitUCB ==
    /\ LoopIdle
    /\ ScalerIdle
    /\ u_pc = "call"
    /\ \E n \in 1 .. MaxUCBLen :
           u_pred \in Posteriors(n, UCBMeanVals, UCBStddevVals)
    /\ u_eps \in {<< >>} \cup {<<e>> : e \in UCBEpsilonVals}
    /\ u_out = NoVec

(* UCB(pred) *)
UCBCallDefault ==
    /\ u_pc = "call"
    /\ u_eps = << >>
    /\ u_out' = UCBDefault(u_pred)
    /\ u_pc' = "returned"
    /\ UNCHANGED <<u_pred, u_eps, loopVars, scalerVars>>

(* UCB(pred, epsilon) *)
UCBCallEpsilon ==
    /\ u_pc = "call"
    /\ u_eps # << >>
    /\ u_out' = UCB(u_pred, u_eps[1])
    /\ u_pc' = "returned"
    /\ UNCHANGED <<u_pred, u_eps, loopVars, scalerVars>>

NextUCB == UCBCallDefault \/ UCBCallEpsilon

SpecUCB == InitUCB /\ [][NextUCB]_vars

----------------------------------------------------------------------------
(* A scaler on its own: fitted (by fit or by fit_transform) on a column of *)
(* 1 .. MaxRows values, then x goes through transform and the result       *)
(* through reverse.                                                        *)

MaxRows == 2
DataVals == {FromInt(k) : k \in {-3, 0, 2, 5}}

Columns(n, vals) == UNION {[1 .. k -> vals] : k \in 1 .. n}

InitScaler ==
    /\ LoopIdle
    /\ UCBIdle
    /\ s_pc = "fit"
    /\ s_data \in Columns(MaxRows, DataVals)
    /\ s_x \in Columns(MaxRows, DataVals)
    /\ s_mean = NoVec
    /\ s_std = NoVec
    /\ s_t = NoVec
    /\ s_r = NoVec

(* scaler.fit(data) *)
CallFit ==
    /\ s_pc = "fit"
    /\ LET after == ScalerFit(s_mean, s_std, s_data)
       IN  /\ s_mean' = after.mean
           /\ s_std' = after.std
           /\ s_data' = after.x
           /\ s_t' = s_t
    /\ s_pc' = "transform"
    /\ UNCHANGED <<s_x, s_r, loopVars, ucbVars>>

(* scaler.fit_transform(data) *)
CallFitTransform ==
    /\ s_pc = "fit"
    /\ LET after == ScalerFitTransform(s_mean, s_std, s_data)
       IN  /\ s_mean' = after.mean
           /\ s_std' = after.std
           /\ s_data' = after.x
           /\ s_t' = after.ret
    /\ s_pc' = "transform"
    /\ UNCHANGED <<s_x, s_r, loopVars, ucbVars>>

(* t = scaler.transform(x) *)
CallTransform ==
    /\ s_pc = "transform"
    /\ LET after == ScalerTransform(s_mean, s_std, s_x)
       IN  /\ s_mean' = after.mean
           /\ s_std' = after.std
           /\ s_x' = after.x
           /\ s_t' = after.ret
    /\ s_pc' = "reverse"
    /\ UNCHANGED <<s_data, s_r, loopVars, ucbVars>>

(* r = scaler.reverse(t) *)
CallReverse ==
    /\ s_pc = "reverse"
    /\ LET after == ScalerReverse(s_mean, s_std, s_t)
       IN  /\ s_mean' = after.mean
           /\ s_std' = after.std
           /\ s_t' = after.x
           /\ s_r' = after.ret
    /\ s_pc' = "done"
    /\ UNCHANGED <<s_data, s_x, loopVars, ucbVars>>

NextScaler == CallFit \/ CallFitTransform \/ CallTransform \/ CallReverse

SpecScaler == InitScaler /\ [][NextScaler]_vars

----------------------------------------------------------------------------
(* Vocabulary of the properties. *)

Evaluated == Range(idx)
Unevaluated == Pool(N) \ Range(idx)
NoDuplicates(s) == \A a, b \in DOMAIN s : a # b => s[a] # s[b]
ValidBudgets == n_initial < N /\ n_initial + op_budget <= N

(* The entries the initial sample has: n_initial of them whenever the pool *)
(* holds that many.                                                        *)
InitialLen == Min(n_initial, N)

(* The appends made so far: one per completed iteration, and the one of    *)
(* the iteration whose last statement is still to run.                     *)
Appended == trial + (IF pc = "rederive" THEN 1 ELSE 0)

InBody == pc \in {"scale", "construct", "fit", "predict", "score", "mask",
                  "select", "rederive"}

----------------------------------------------------------------------------
(* C1.  No re-selection: under valid budgets (n_initial < N and            *)
(* n_initial + op_budget <= N) idx never holds an index twice.             *)
C1_NoReselection == ValidBudgets => NoDuplicates(idx)

(* C2.  Growth and range: idx starts with the n_initial entries of the     *)
(* initial sample, all different; after k iterations its length is         *)
(* n_initial + k (the initial sample has min(n_initial, N) entries, which  *)
(* is n_initial whenever the pool holds n_initial points); every entry is  *)
(* in [0, N); and a step changes idx only by appending one entry after the *)
(* unchanged earlier ones.                                                 *)
C2_IdxShape ==
    /\ Len(idx) = InitialLen + Appended
    /\ \A k \in 1 .. Len(idx) : idx[k] \in Pool(N)
    /\ NoDuplicates(Take(idx, InitialLen))
C2_IdxStep ==
    \/ idx' = idx
    \/ /\ pc = "select"
       /\ Len(idx') = Len(idx) + 1
       /\ SubSeq(idx', 1, Len(idx)) = idx
C2_GrowthAndRange == [](C2_IdxShape) /\ [][C2_IdxStep]_vars
C2_Witness ==
    /\ pc = "for" /\ trial = 2 /\ n_initial = 1
    /\ Len(idx) = 3 /\ idx[2] # idx[3]

(* C3.  Sentinel enforcement: right after the masking statement the score  *)
(* at every evaluated index is strictly below the score at every           *)
(* unevaluated index.                                                      *)
C3_SentinelEnforced ==
    (pc = "select" /\ ValidBudgets) =>
        \A i \in Evaluated, j \in Unevaluated : acqf_vals[i] < acqf_vals[j]

(* C4.  Full exhaustion: when n_initial + op_budget = N and the loop has   *)
(* ended, idx is a permutation of 0..N-1.                                  *)
C4_FullExhaustion ==
    (n_initial + op_budget = N /\ pc = "done") =>
        (Len(idx) = N /\ Range(idx) = Pool(N))

(* C5.  Invalid budgets: no step appends an index while every pool index   *)
(* is already in idx.                                                      *)
C5_NoAppendOnExhaustedPool == [][Evaluated = Pool(N) => idx' = idx]_vars

(* C6.  A failed fit ends the run: the exception is raised by the fit      *)
(* statement only, the run is then aborted for good, and idx is what it    *)
(* was when the iteration started (the initial sample plus one entry per   *)
(* completed iteration; no statement from the start of the body to the fit *)
(* touches it).                                                            *)
C6_Aborted ==
    err # "none" =>
        /\ pc = "aborted"
        /\ Len(idx) = InitialLen + trial
C6_AbortStep ==
    /\ pc \in {"scale", "construct", "fit"} => idx' = idx /\ trial' = trial
    /\ err' # "none" => pc = "fit" /\ pc' = "aborted"
    /\ pc # "aborted"
C6_FitFailurePropagates == [](C6_Aborted) /\ [][C6_AbortStep]_vars
C6_Witness == err = "fit" /\ pc = "aborted" /\ trial = 1 /\ Len(idx) = n_initial + 1

(* C7.  Fixed budget: the body runs only for trial < op_budget, the loop   *)
(* ends only at trial = op_budget with n_initial + op_budget entries in    *)
(* idx (the initial sample's min(n_initial, N), plus op_budget), nothing   *)
(* runs after the end, and with op_budget = 0 idx is never changed.        *)
C7_Budget ==
    /\ trial <= op_budget
    /\ InBody => trial < op_budget
    /\ pc = "done" => trial = op_budget /\ Len(idx) = InitialLen + op_budget
C7_BudgetStep ==
    /\ pc # "done"
    /\ pc' = "done" => pc = "for" /\ trial = op_budget
    /\ pc = "for" /\ trial < op_budget => pc' = "scale"
    /\ pc = "rederive" => trial' = trial + 1
    /\ trial' # trial => pc = "rederive"
    /\ op_budget = 0 => idx' = idx
C7_FixedBudget == [](C7_Budget) /\ [][C7_BudgetStep]_vars
C7_Witness == pc = "done" /\ op_budget = 2 /\ trial = 2 /\ Len(idx) = n_initial + 2

(* C8.  UCB scoring: the returned score is mean + epsilon*stddev at every  *)
(* candidate, with epsilon = 2 when the caller passes none; with           *)
(* epsilon = 0 it is the posterior mean; and the call leaves the caller's  *)
(* posterior as it was.                                                    *)
C8_Returned ==
    u_pc = "returned" =>
        LET e == IF u_eps = << >> THEN 2 ELSE u_eps[1]
        IN  /\ DOMAIN u_out = DOMAIN u_pred.mean
            /\ \A i \in DOMAIN u_out :
                   u_out[i] = u_pred.mean[i] + e * u_pred.stddev[i]
            /\ e = 0 => u_out = u_pred.mean
C8_UCBScoring == [](C8_Returned) /\ [][u_pred' = u_pred]_vars
C8_Witness ==
    /\ u_pc = "returned" /\ u_eps = <<0>>
    /\ \E i \in DOMAIN u_out : u_pred.stddev[i] > 0 /\ u_out[i] = u_pred.mean[i]

(* C9 as it stands.  Scaler round trip: reverse(transform(x)) equals x.    *)
C9_RoundTripExact == s_pc = "done" => s_r = s_x

(* C9, amended.  reverse(transform(x)) is x up to the rounding of the four *)
(* operations: entry by entry, with u = 2^-MantBits,                       *)
(*     |reverse(transform(x)) - x| <= u * (4 * |x - mean| + |x|),          *)
(* also when the column the scaler was fitted on is constant (std = 0);    *)
(* transform and reverse leave the stored mean and std and the caller's    *)
(* tensors as they were.                                                   *)
Num(a, e) == a.m * Pow2(a.e - e)
MinExp(a, b, c) == Min(a.e, Min(b.e, c.e))
Close(r, x, mean) ==
    LET e == MinExp(r, x, mean)
    IN  Abs(Num(r, e) - Num(x, e)) * Pow2(MantBits)
            <= 4 * Abs(Num(x, e) - Num(mean, e)) + Abs(Num(x, e))
C9_Reversed ==
    s_pc = "done" =>
        /\ DOMAIN s_r = DOMAIN s_x
        /\ \A i \in DOMAIN s_x : Close(s_r[i], s_x[i], s_mean)
C9_CallStep ==
    s_pc \in {"transform", "reverse"} =>
        /\ UNCHANGED <<s_mean, s_std, s_x>>
        /\ s_pc = "reverse" => s_t' = s_t
C9_RoundTripClose == [](C9_Reversed) /\ [][C9_CallStep]_vars
C9_Witness ==
    /\ s_pc = "done" /\ s_std = Zero
    /\ \E i \in DOMAIN s_x : s_x[i] # s_mean /\ s_r[i] = s_x[i]

(* C10.  Greedy selection: whenever an index is unevaluated, the appended  *)
(* index is an unevaluated one whose UCB score is the maximum over the     *)
(* unevaluated indices, and the masked scores of the unevaluated indices   *)
(* are their UCB scores.                                                   *)
C10_GreedyStep ==
    (pc = "select" /\ Unevaluated # {}) =>
        LET sel == idx'[Len(idx')]
            score == UCBDefault(pred)
        IN  /\ sel \in Unevaluated
            /\ \A j \in Unevaluated : score[j] <= score[sel]
            /\ \A j \in Unevaluated : acqf_vals[j] = score[j]
C10_GreedySelection == [][C10_GreedyStep]_vars

(* C11.  Surrogate lifecycle and step order: every pass of the body makes  *)
(* a new likelihood and a new surrogate, unfit, fits it once and only then *)
(* predicts; predict never runs on an unfit surrogate; no instance is      *)
(* fitted twice or used in a later pass; and the statements of a pass run  *)
(* in the order scale, construct, fit, predict, score, mask, select and    *)
(* append, re-derive.                                                      *)
Constructed == pc \in {"fit", "predict", "score", "mask", "select", "rederive"}
C11_Instances ==
    /\ Len(fits) = trial + (IF Constructed \/ pc = "aborted" THEN 1 ELSE 0)
    /\ \A i \in DOMAIN fits : fits[i] <= 1
    /\ \A i \in DOMAIN fits : i < Len(fits) => fits[i] = 1
    /\ gp_id = Len(fits) /\ likelihood = gp_id
    /\ Constructed => gp_id = trial + 1
    /\ pc = "fit" => gp = "unfit" /\ fits[gp_id] = 0
    /\ pc \in {"predict", "score", "mask", "select", "rederive"} =>
           gp = "fit" /\ fits[gp_id] = 1
C11_Order ==
    /\ pc = "scale" => pc' = "construct"
    /\ pc = "construct" =>
           /\ pc' = "fit"
           /\ gp' = "unfit"
           /\ gp_id' \notin DOMAIN fits /\ gp_id' # gp_id
           /\ likelihood' # likelihood
    /\ pc = "fit" => pc' \in {"predict", "aborted"}
    /\ pc = "predict" => pc' = "score" /\ gp = "fit" /\ fits[gp_id] = 1
    /\ pc = "score" => pc' = "mask"
    /\ pc = "mask" => pc' = "select"
    /\ pc = "select" => pc' = "rederive" /\ idx' = Append(idx, ArgMax(acqf_vals))
    /\ pc = "rederive" => pc' = "for"
    /\ pc' = "scale" => pc = "for"
    /\ gp_id' # gp_id => pc = "construct"
    /\ fits' # fits => pc \in {"construct", "fit"}
C11_SurrogateLifecycle == [](C11_Instances) /\ [][C11_Order]_vars
C11_Witness ==
    /\ pc = "predict" /\ trial = 1 /\ gp = "fit" /\ gp_id = 2 /\ fits = <<1, 1>>

(* C12.  Frame of the loop: no step changes the pool (X_, y_, N, the order *)
(* of the rows) or TorchStd's mean and std, which stay those fitted on the *)
(* whole pool before the loop.  What one pass hands to the next is idx and *)
(* the training subset read from the pool with it: idx changes only at the *)
(* append, X and y only at scale and re-derive, and the surrogate, the     *)
(* posterior and the scores a pass uses are the ones this pass assigned    *)
(* (the scores are UCB of this pass's posterior, masked with idx).         *)
Front(s) == SubSeq(s, 1, Len(s) - 1)
LoadedX == [n \in 1 .. MaxN |-> FloatColumn(FeatureColumn, n)]
LoadedY == [n \in 1 .. MaxN |-> FloatColumn(ResponseColumn, n)]
FittedOnPool == [n \in 1 .. MaxN |-> ScalerFit(NoVec, NoVec, LoadedX[n])]
C12_Pool ==
    /\ Len(X_) = N /\ Len(y_) = N
    /\ X_ = LoadedX[N]
    /\ y_ = LoadedY[N]
    /\ ts_mean = FittedOnPool[N].mean
    /\ ts_std = FittedOnPool[N].std
C12_Carried ==
    /\ pc = "for" => X = Gather(X_, idx) /\ y = Gather(y_, idx)
    /\ Constructed => gp_id = trial + 1
    /\ pc = "mask" => acqf_vals = UCBDefault(pred)
    /\ pc = "select" => acqf_vals = Masked(UCBDefault(pred), idx)
    /\ pc = "rederive" =>
           /\ acqf_vals = Masked(UCBDefault(pred), Front(idx))
           /\ idx = Append(Front(idx), ArgMax(acqf_vals))
C12_FrameStep ==
    /\ UNCHANGED <<N, X_, y_, ts_mean, ts_std>>
    /\ idx' # idx => pc = "select"
    /\ (X' # X \/ y' # y) => pc \in {"scale", "rederive"}
    /\ pc' = "score" => pc = "predict" /\ DOMAIN pred'.mean = Pool(N)
    /\ pc' = "fit" => pc = "construct" /\ gp' = "unfit"
C12_LoopFrame == [](C12_Pool /\ C12_Carried) /\ [][C12_FrameStep]_vars
C12_Witness ==
    /\ pc = "for" /\ trial = 2 /\ N = 3 /\ ts_std # Zero
    /\ X_ = LoadedX[3] /\ Len(idx) >= 3

(* C13.  The training subset is re-derived, never re-scaled: at the start  *)
(* of every pass (and after the last) X and y are the unscaled pool rows   *)
(* X_[idx] and y_[idx], in the order of idx; the scale statement turns     *)
(* them into those rows standardized once (X with TorchStd, y with a       *)
(* scaler fitted on those rows of y_); the scaled values last until the    *)
(* re-derive statement, which reads the rows from the pool again.          *)
RawX == Gather(X_, idx)
RawY == Gather(y_, idx)
C13_Raw ==
    pc \in {"for", "scale", "done"} => X = RawX /\ y = RawY
C13_ScaleStep ==
    /\ pc = "scale" =>
           /\ X' = Standardize(ts_mean, ts_std, RawX)
           /\ y' = Standardize(ColMean(RawY), ColStd(RawY), RawY)
    /\ pc = "rederive" => X' = RawX /\ y' = RawY
    /\ (X' # X \/ y' # y) => pc \in {"scale", "rederive"}
C13_RederivedNotRescaled == [](C13_Raw) /\ [][C13_ScaleStep]_vars
C13_Witness ==
    /\ pc = "construct" /\ trial = 1 /\ Len(idx) = 3
    /\ X = Standardize(ts_mean, ts_std, RawX) /\ X # RawX
    /\ y # RawY
====
